---- MODULE Spec2Model ----
(***************************************************************************)
(* Model of the Apertium stream parser of src/src/lib.rs.                  *)
(*                                                                         *)
(* Text is a sequence of one-character strings.  Every parser of the       *)
(* source is an operator from a text to a result record                    *)
(*     [ok |-> BOOLEAN, rest |-> text, out |-> value]                      *)
(* (nom's IResult: Ok((rest, out)) or Err(Error)).  No parser of the       *)
(* source uses cut, so every error is a recoverable Err::Error.            *)
(*                                                                         *)
(* The nom combinators are modelled as the source uses them (nom 6 or 7,   *)
(* the versions that have separated_list0 and FnMut parsers):              *)
(*   - escaped_transform fails when neither the normal parser nor the      *)
(*     control character matches at the start, and succeeds with the       *)
(*     empty text on an empty input;                                       *)
(*   - separated_list0 accepts elements that consume nothing and fails     *)
(*     only on a separator that consumes nothing;                          *)
(*   - many0 stops at the first error of its parser and fails when the     *)
(*     parser succeeds without consuming;                                  *)
(*   - alt returns the first alternative that succeeds.                    *)
(***************************************************************************)
EXTENDS Integers, Sequences, FiniteSets, TLC

VARIABLES
    given,        \* the value the input was written from, <<>> for a free text
    input,        \* the text handed to the parser
    pc,           \* what the caller has done so far
    unit_res,     \* the result of parse_stream_unit(input)
    stream_res,   \* the result of parse_stream(input)
    rendered,     \* the canonical text of stream_res
    reparse_res   \* the result of parse_stream(rendered)

vars == <<given, input, pc, unit_res, stream_res, rendered, reparse_res>>

(***************************************************************************)
(* Bounds of the explored inputs.                                          *)
(***************************************************************************)
MaxLen == 3
MaxPieces == 4
MaxUnitPieces == 5
MaxEscapes == 2
MaxJoined == 3

(***************************************************************************)
(* Results.                                                                *)
(***************************************************************************)
Ok(rest, out) == [ok |-> TRUE, rest |-> rest, out |-> out]

Err == [ok |-> FALSE, rest |-> <<>>, out |-> <<>>]

Drop(i, n) == SubSeq(i, n + 1, Len(i))

Take(i, n) == SubSeq(i, 1, n)

(***************************************************************************)
(* Data model.                                                             *)
(***************************************************************************)
SubLU(ling_form, flag, tags) ==
    [ling_form |-> ling_form, flag |-> flag, tags |-> tags]

LexicalUnit(analyses) == [type |-> "LexicalUnit", analyses |-> analyses]

Space(text) == [type |-> "Space", text |-> text]

Format(text) == [type |-> "Format", text |-> text]

JoinedLexicalUnit(slots) == [type |-> "JoinedLexicalUnit", slots |-> slots]

Chunk(head, children) ==
    [type |-> "Chunk", head |-> head, children |-> children]

(***************************************************************************)
(* nom primitives, as the source instantiates them.                        *)
(***************************************************************************)
\* tag(t): the text must start with t.
Tag(t, i) ==
    IF Len(i) >= Len(t) /\ Take(i, Len(t)) = t
    THEN Ok(Drop(i, Len(t)), t)
    ELSE Err

\* Length of the longest prefix of i whose characters all satisfy "in S"
\* (inS = TRUE) or all satisfy "not in S" (inS = FALSE).
RunLen(S, inS, i) ==
    LET stop == {k \in 1..Len(i) : (i[k] \in S) # inS}
    IN  IF stop = {} THEN Len(i)
        ELSE (CHOOSE k \in stop : \A m \in stop : k <= m) - 1

\* is_not(S): a non-empty maximal run of characters outside S.
IsNot(S, i) ==
    LET n == RunLen(S, FALSE, i)
    IN  IF n = 0 THEN Err ELSE Ok(Drop(i, n), Take(i, n))

\* one_of(S): one character of S.
OneOf(S, i) ==
    IF Len(i) > 0 /\ i[1] \in S THEN Ok(Drop(i, 1), i[1]) ELSE Err

\* Space1 as space0, which also accepts the empty run.
Space0(i) ==
    Ok(Drop(i, RunLen({" ", "\t"}, TRUE, i)), Take(i, RunLen({" ", "\t"}, TRUE, i)))

\* space1: a non-empty maximal run of spaces and tabs.
Space1(i) ==
    LET n == RunLen({" ", "\t"}, TRUE, i)
    IN  IF n = 0 THEN Err ELSE Ok(Drop(i, n), Take(i, n))

(***************************************************************************)
(* nom combinators.  A result handed to a combinator is evaluated only     *)
(* when the combinator looks at it, as the parser it stands for runs only  *)
(* when the ones before it succeeded.                                      *)
(***************************************************************************)
\* alt((a, b)): the first alternative that succeeds.
Alt(a, b) == IF a.ok THEN a ELSE b

\* The last step of delimited(open, body, close): body has run, close
\* runs on what body left and the value of body is kept.
Close(body, close) ==
    IF ~body.ok THEN Err
    ELSE IF ~Tag(close, body.rest).ok THEN Err
    ELSE Ok(Drop(body.rest, Len(close)), body.out)

\* delimited(tag(open), body, tag(close)), body being the result of the
\* inner parser on the text after open.
Delimited(open, body, close) == IF ~open.ok THEN Err ELSE Close(body, close)

(***************************************************************************)
(* parse_tag                                                               *)
(***************************************************************************)
parse_tag(i) ==
    Delimited(Tag(<<"<">>, i), IsNot({"<", ">"}, Drop(i, 1)), <<">">>)

\* many0(parse_tag): r is the result of parse_tag on i.  A parser that
\* consumed nothing makes many0 fail.
RECURSIVE many0_parse_tag(_, _)
many0_parse_tag_step(i, acc, r) ==
    IF ~r.ok THEN Ok(i, acc)
    ELSE IF Len(r.rest) = Len(i) THEN Err
    ELSE many0_parse_tag(r.rest, Append(acc, r.out))

many0_parse_tag(i, acc) == many0_parse_tag_step(i, acc, parse_tag(i))

(***************************************************************************)
(* make_flag and the flag alternative                                      *)
(***************************************************************************)
make_flag(s) ==
    CASE s = <<"*">> -> "Unanalyzed"
      [] s = <<"@">> -> "Untranslated"
      [] s = <<"#">> -> "UnableToGenerateOrStartOfInvariablePart"
      [] OTHER -> "Nothing"

\* alt((tag("*"), tag("#"), tag("@"), tag("")))
parse_flag(i) ==
    Alt(Tag(<<"*">>, i), Alt(Tag(<<"#">>, i), Alt(Tag(<<"@">>, i), Tag(<<>>, i))))

(***************************************************************************)
(* The lemma text: escaped_transform(is_not(set), '\\', one_of(set))       *)
(***************************************************************************)
\* The string r#"^$@*/<>{}\[]"# of the source.
LingFormSet == {"^", "$", "@", "*", "/", "<", ">", "{", "}", "\\", "[", "]"}

ling_form_inner_parse(i) == IsNot(LingFormSet, i)

\* ling_form_transform accepting any character after the backslash.
ling_form_transform_any(i) ==
    IF Len(i) > 0 THEN Ok(Drop(i, 1), i[1]) ELSE Err

ling_form_transform(i) == OneOf(LingFormSet, i)

\* The loop of escaped_transform: index is the number of characters of inp
\* already consumed, res the text built so far.
RECURSIVE escaped_transform_loop(_, _, _)
\* After the control character: t is the result of the transform parser.
escaped_transform_escape(inp, res, t) ==
    IF ~t.ok THEN Err
    ELSE IF Len(t.rest) = 0 THEN Ok(<<>>, Append(res, t.out))
    ELSE escaped_transform_loop(inp, Len(inp) - Len(t.rest), Append(res, t.out))

\* One turn of the loop: n is the result of the normal parser on the
\* text from index on.
escaped_transform_turn(inp, index, res, n) ==
    IF n.ok
    THEN IF Len(n.rest) = 0 THEN Ok(<<>>, res \o n.out)
         ELSE IF Len(n.rest) = Len(inp) THEN Ok(Drop(inp, index), res \o n.out)
         ELSE escaped_transform_loop(inp, Len(inp) - Len(n.rest), res \o n.out)
    ELSE IF inp[index + 1] = "\\"
    THEN IF index + 1 >= Len(inp) THEN Err
         ELSE escaped_transform_escape(inp, res,
                                       ling_form_transform(Drop(inp, index + 1)))
    ELSE IF index = 0 THEN Err
    ELSE Ok(Drop(inp, index), res)

escaped_transform_loop(inp, index, res) ==
    IF index >= Len(inp) THEN Ok(Drop(inp, index), res)
    ELSE escaped_transform_turn(inp, index, res,
                                ling_form_inner_parse(Drop(inp, index)))

ling_form_escape_parse(i) == escaped_transform_loop(i, 0, <<>>)

(***************************************************************************)
(* SubLU parsers                                                           *)
(***************************************************************************)
\* The end of tuple((flag, ling_form, many0(parse_tag))).
sub_lu_basic_make(flag, ling_form, tags) ==
    IF ~tags.ok THEN Err
    ELSE Ok(tags.rest, SubLU(ling_form.out, make_flag(flag.out), tags.out))

sub_lu_basic_tags(flag, ling_form) ==
    IF ~ling_form.ok THEN Err
    ELSE sub_lu_basic_make(flag, ling_form,
                           many0_parse_tag(ling_form.rest, <<>>))

sub_lu_basic_ling_form(flag) ==
    IF ~flag.ok THEN Err
    ELSE sub_lu_basic_tags(flag, ling_form_escape_parse(flag.rest))

parse_sub_lu_basic(i) == sub_lu_basic_ling_form(parse_flag(i))

\* The end of tuple((flag, many0(parse_tag))).
sub_lu_without_make(flag, tags) ==
    IF ~tags.ok THEN Err
    ELSE Ok(tags.rest, SubLU(<<>>, make_flag(flag.out), tags.out))

sub_lu_without_tags(flag) ==
    IF ~flag.ok THEN Err
    ELSE sub_lu_without_make(flag, many0_parse_tag(flag.rest, <<>>))

parse_sub_lu_without_ling_form(i) == sub_lu_without_tags(parse_flag(i))

parse_sub_lu(i) ==
    Alt(parse_sub_lu_basic(i), parse_sub_lu_without_ling_form(i))

(***************************************************************************)
(* parse_basic_lu: '^' analyses '$', analyses = separated_list0("/", SubLU) *)
(***************************************************************************)
\* separated_list0(tag("/"), parse_sub_lu): no first element gives the
\* empty list; after an element a separator and another element are
\* looked for; a separator that consumed nothing is an error.
RECURSIVE parse_analyses_loop(_, _)
parse_analyses_elem(i, res, f) ==
    IF ~f.ok THEN Ok(i, res)
    ELSE parse_analyses_loop(f.rest, Append(res, f.out))

parse_analyses_sep(i, res, sep) ==
    IF ~sep.ok THEN Ok(i, res)
    ELSE IF Len(sep.rest) = Len(i) THEN Err
    ELSE parse_analyses_elem(i, res, parse_sub_lu(sep.rest))

parse_analyses_loop(i, res) == parse_analyses_sep(i, res, Tag(<<"/">>, i))

parse_analyses_first(i, f) ==
    IF ~f.ok THEN Ok(i, <<>>) ELSE parse_analyses_loop(f.rest, <<f.out>>)

parse_analyses(i) == parse_analyses_first(i, parse_sub_lu(i))

\* The map of a parsed body to a StreamUnit::LexicalUnit.
ToLexicalUnit(r) == IF r.ok THEN Ok(r.rest, LexicalUnit(r.out)) ELSE Err

\* parse_basic_lu without the closing tag("$").
parse_basic_lu_unclosed(i) ==
    ToLexicalUnit(IF Tag(<<"^">>, i).ok THEN parse_analyses(Drop(i, 1)) ELSE Err)

parse_basic_lu(i) ==
    ToLexicalUnit(Delimited(Tag(<<"^">>, i), parse_analyses(Drop(i, 1)),
                            <<"$">>))

(***************************************************************************)
(* parse_joined_lu: '^' slots '$', slots = "/"-separated "+"-separated     *)
(* lists of SubLU                                                          *)
(***************************************************************************)
RECURSIVE parse_sub_lus_loop(_, _)
parse_sub_lus_elem(i, res, f) ==
    IF ~f.ok THEN Ok(i, res)
    ELSE parse_sub_lus_loop(f.rest, Append(res, f.out))

parse_sub_lus_sep(i, res, sep) ==
    IF ~sep.ok THEN Ok(i, res)
    ELSE IF Len(sep.rest) = Len(i) THEN Err
    ELSE parse_sub_lus_elem(i, res, parse_sub_lu(sep.rest))

parse_sub_lus_loop(i, res) == parse_sub_lus_sep(i, res, Tag(<<"+">>, i))

parse_sub_lus_first(i, f) ==
    IF ~f.ok THEN Ok(i, <<>>) ELSE parse_sub_lus_loop(f.rest, <<f.out>>)

parse_sub_lus(i) == parse_sub_lus_first(i, parse_sub_lu(i))

RECURSIVE parse_joined_analyses_loop(_, _)
parse_joined_analyses_elem(i, res, f) ==
    IF ~f.ok THEN Ok(i, res)
    ELSE parse_joined_analyses_loop(f.rest, Append(res, f.out))

parse_joined_analyses_sep(i, res, sep) ==
    IF ~sep.ok THEN Ok(i, res)
    ELSE IF Len(sep.rest) = Len(i) THEN Err
    ELSE parse_joined_analyses_elem(i, res, parse_sub_lus(sep.rest))

parse_joined_analyses_loop(i, res) ==
    parse_joined_analyses_sep(i, res, Tag(<<"/">>, i))

parse_joined_analyses_first(i, f) ==
    IF ~f.ok THEN Ok(i, <<>>)
    ELSE parse_joined_analyses_loop(f.rest, <<f.out>>)

parse_joined_analyses(i) == parse_joined_analyses_first(i, parse_sub_lus(i))

\* The map of a parsed body to a StreamUnit::JoinedLexicalUnit.
ToJoinedLexicalUnit(r) ==
    IF r.ok THEN Ok(r.rest, JoinedLexicalUnit(r.out)) ELSE Err

parse_joined_lu(i) ==
    ToJoinedLexicalUnit(Delimited(Tag(<<"^">>, i),
                                  parse_joined_analyses(Drop(i, 1)), <<"$">>))

(***************************************************************************)
(* parse_format, parse_space                                               *)
(***************************************************************************)
ToFormat(r) == IF r.ok THEN Ok(r.rest, Format(r.out)) ELSE Err

parse_format(i) ==
    ToFormat(Delimited(Tag(<<"[">>, i), IsNot({"[", "]"}, Drop(i, 1)),
                       <<"]">>))

ToSpace(r) == IF r.ok THEN Ok(r.rest, Space(r.out)) ELSE Err

parse_space(i) == ToSpace(Alt(Space1(i), Tag(<<"\n">>, i)))

(***************************************************************************)
(* parse_chunk: head SubLU, '{' children '}'                               *)
(***************************************************************************)
\* parse_lu_or_space_or_format with parse_chunk among its alternatives.
RECURSIVE parse_chunk(_)
parse_lu_or_space_or_format_nested(i) ==
    Alt(parse_format(i),
        Alt(parse_basic_lu(i),
            Alt(parse_joined_lu(i), Alt(parse_space(i), parse_chunk(i)))))

parse_lu_or_space_or_format(i) ==
    Alt(parse_format(i),
        Alt(parse_basic_lu(i), Alt(parse_joined_lu(i), parse_space(i))))

\* many0(parse_lu_or_space_or_format)
RECURSIVE many0_children(_, _)
many0_children_step(i, acc, r) ==
    IF ~r.ok THEN Ok(i, acc)
    ELSE IF Len(r.rest) = Len(i) THEN Err
    ELSE many0_children(r.rest, Append(acc, r.out))

many0_children(i, acc) ==
    many0_children_step(i, acc, parse_lu_or_space_or_format(i))

parse_children(i) ==
    Delimited(Tag(<<"{">>, i), many0_children(Drop(i, 1), <<>>), <<"}">>)

\* The end of pair(parse_sub_lu, parse_children).
chunk_make(head, children) ==
    IF ~children.ok THEN Err
    ELSE Ok(children.rest, Chunk(head.out, children.out))

chunk_children(head) ==
    IF ~head.ok THEN Err ELSE chunk_make(head, parse_children(head.rest))

parse_chunk(i) == chunk_children(parse_sub_lu(i))

(***************************************************************************)
(* parse_stream_unit, parse_stream                                         *)
(***************************************************************************)
\* parse_stream_unit trying parse_joined_lu before parse_basic_lu.
parse_stream_unit_joined_first(i) ==
    Alt(parse_space(i),
        Alt(parse_format(i),
            Alt(parse_joined_lu(i), Alt(parse_basic_lu(i), parse_chunk(i)))))

parse_stream_unit(i) ==
    Alt(parse_space(i),
        Alt(parse_format(i),
            Alt(parse_basic_lu(i), Alt(parse_joined_lu(i), parse_chunk(i)))))

\* many0(parse_stream_unit): stops with what it has at the first error of
\* the unit parser; a unit that consumed nothing makes the whole call fail.
RECURSIVE many0_stream_unit(_, _)
\* many0_stream_unit_step failing when the unit parser fails before the
\* end of the text.
many0_stream_unit_step_all_or_nothing(i, acc, r) ==
    IF ~r.ok THEN (IF i = <<>> THEN Ok(i, acc) ELSE Err)
    ELSE IF Len(r.rest) = Len(i) THEN Err
    ELSE many0_stream_unit(r.rest, Append(acc, r.out))

many0_stream_unit_step(i, acc, r) ==
    IF ~r.ok THEN Ok(i, acc)
    ELSE IF Len(r.rest) = Len(i) THEN Err
    ELSE many0_stream_unit(r.rest, Append(acc, r.out))

many0_stream_unit(i, acc) ==
    many0_stream_unit_step(i, acc, parse_stream_unit(i))

parse_stream(i) == many0_stream_unit(i, <<>>)

(***************************************************************************)
(* Canonical text of a parse result: reserved characters of the lemma      *)
(* text backslash-escaped, tags as <t>, analyses joined by '/', joined     *)
(* components by '+', '^...$', 'head{...}', '[...]', spaces verbatim.      *)
(***************************************************************************)
\* The reserved characters of the stream format.
ReservedSet ==
    {"^", "$", "/", "<", ">", "{", "}", "\\", "[", "]", "*", "#", "@"}

RECURSIVE Flatten(_)
Flatten(ss) == IF ss = <<>> THEN <<>> ELSE Head(ss) \o Flatten(Tail(ss))

\* The texts of ss with sep between each two of them.
RECURSIVE Join(_, _)
Join(ss, sep) ==
    IF ss = <<>> THEN <<>>
    ELSE IF Len(ss) = 1 THEN ss[1]
    ELSE ss[1] \o sep \o Join(Tail(ss), sep)

RenderLingForm(l) ==
    Flatten([k \in 1..Len(l) |->
                IF l[k] \in ReservedSet THEN <<"\\", l[k]>> ELSE <<l[k]>>])

RenderFlag(f) ==
    CASE f = "Unanalyzed" -> <<"*">>
      [] f = "Untranslated" -> <<"@">>
      [] f = "UnableToGenerateOrStartOfInvariablePart" -> <<"#">>
      [] OTHER -> <<>>

RenderSubLU(s) ==
    RenderFlag(s.flag) \o RenderLingForm(s.ling_form)
      \o Flatten([k \in 1..Len(s.tags) |-> <<"<">> \o s.tags[k] \o <<">">>])

RECURSIVE RenderUnit(_)
RenderUnit(u) ==
    CASE u.type = "Space" -> u.text
      [] u.type = "Format" -> <<"[">> \o u.text \o <<"]">>
      [] u.type = "LexicalUnit" ->
           <<"^">> \o Join([k \in 1..Len(u.analyses) |->
                               RenderSubLU(u.analyses[k])], <<"/">>)
                   \o <<"$">>
      [] u.type = "JoinedLexicalUnit" ->
           <<"^">> \o Join([k \in 1..Len(u.slots) |->
                               Join([m \in 1..Len(u.slots[k]) |->
                                        RenderSubLU(u.slots[k][m])], <<"+">>)],
                           <<"/">>)
                   \o <<"$">>
      [] OTHER ->
           RenderSubLU(u.head) \o <<"{">>
             \o Flatten([k \in 1..Len(u.children) |-> RenderUnit(u.children[k])])
             \o <<"}">>

RenderStream(us) == Flatten([k \in 1..Len(us) |-> RenderUnit(us[k])])

(***************************************************************************)
(* Inputs.                                                                 *)
(***************************************************************************)
\* All texts of at most n elements of A.
Words(A, n) == UNION {[1..k -> A] : k \in 0..n}

\* One character of every class the parsers distinguish.
Alphabet ==
    {"^", "$", "/", "+", "<", ">", "{", "}", "[", "]", "\\",
     "*", "#", "a", " ", "\n"}

\* Lexemes of the format, for longer inputs.
Pieces ==
    {<<"^">>, <<"$">>, <<"/">>, <<"+">>, <<"a">>, <<"<", "t", ">">>,
     <<"{">>, <<"}">>, <<"\\">>, <<"#">>}

\* Lexemes of the body of a '^...$' unit.
UnitPieces ==
    {<<"^">>, <<"$">>, <<"/">>, <<"+">>, <<"a">>, <<"<", "t", ">">>}

\* Lemma texts of plain and reserved characters.
EscapeLemmas == Words({"a"} \cup ReservedSet, MaxEscapes) \ {<<>>}

\* Joined components: a lemma of plain characters and zero or more tags.
Components ==
    {SubLU(l, "Nothing", t) :
        l \in {<<"a">>, <<"b", "c">>},
        t \in {<<>>, <<<<"t">>>>, <<<<"t">>, <<"u">>>>}}

(***************************************************************************)
(* The program: a caller hands a text to parse_stream_unit or to           *)
(* parse_stream; a fully consumed stream is rendered and parsed again.     *)
(***************************************************************************)
NoResult == Err

Start ==
    /\ pc = "ready"
    /\ unit_res = NoResult
    /\ stream_res = NoResult
    /\ rendered = <<>>
    /\ reparse_res = NoResult

\* Any text of at most MaxLen characters.
Init ==
    /\ given = <<>>
    /\ input \in Words(Alphabet, MaxLen)
    /\ Start

\* Any text of at most MaxPieces lexemes.
InitPieces ==
    /\ given = <<>>
    /\ input \in {Flatten(w) : w \in Words(Pieces, MaxPieces)}
    /\ Start

\* Any text of at most MaxUnitPieces lexemes of a unit.
InitUnits ==
    /\ given = <<>>
    /\ input \in {Flatten(w) : w \in Words(UnitPieces, MaxUnitPieces)}
    /\ Start

\* '^lemma$', every reserved character of the lemma escaped.
InitEscape ==
    /\ given \in {<<SubLU(l, "Nothing", <<>>)>> : l \in EscapeLemmas}
    /\ input = RenderUnit(LexicalUnit(given))
    /\ Start

\* '^s1+...+sk$' with k >= 2.
InitJoined ==
    /\ given \in {w \in Words(Components, MaxJoined) : Len(w) >= 2}
    /\ input = RenderUnit(JoinedLexicalUnit(<<given>>))
    /\ Start

CallParseStreamUnit ==
    /\ pc = "ready"
    /\ unit_res' = parse_stream_unit(input)
    /\ pc' = "unit"
    /\ UNCHANGED <<given, input, stream_res, rendered, reparse_res>>

CallParseStream ==
    /\ pc = "ready"
    /\ stream_res' = parse_stream(input)
    /\ pc' = "stream"
    /\ UNCHANGED <<given, input, unit_res, rendered, reparse_res>>

Render ==
    /\ pc = "stream"
    /\ stream_res.ok
    /\ stream_res.rest = <<>>
    /\ rendered' = RenderStream(stream_res.out)
    /\ pc' = "rendered"
    /\ UNCHANGED <<given, input, unit_res, stream_res, reparse_res>>

Reparse ==
    /\ pc = "rendered"
    /\ reparse_res' = parse_stream(rendered)
    /\ pc' = "reparsed"
    /\ UNCHANGED <<given, input, unit_res, stream_res, rendered>>

Next == CallParseStreamUnit \/ CallParseStream \/ Render \/ Reparse

Spec == Init /\ [][Next]_vars

SpecPieces == InitPieces /\ [][Next]_vars

SpecUnits == InitUnits /\ [][Next]_vars

SpecEscape == InitEscape /\ [][Next]_vars

SpecJoined == InitJoined /\ [][Next]_vars

(***************************************************************************)
(* Vocabulary of the properties.                                           *)
(***************************************************************************)
Elems(q) == {q[k] : k \in 1..Len(q)}

IsSuffix(r, i) == Len(r) <= Len(i) /\ Drop(i, Len(i) - Len(r)) = r

\* The text parse_stream_unit consumed.
UnitConsumed == Take(input, Len(input) - Len(unit_res.rest))

\* Every StreamUnit some call has returned.
ReturnedUnits ==
    (IF unit_res.ok THEN {unit_res.out} ELSE {})
      \cup (IF stream_res.ok THEN Elems(stream_res.out) ELSE {})
      \cup (IF reparse_res.ok THEN Elems(reparse_res.out) ELSE {})

\* The returned units and the children of the returned chunks.
ReturnedUnitsAndChildren ==
    ReturnedUnits
      \cup UNION {Elems(u.children) : u \in {v \in ReturnedUnits : v.type = "Chunk"}}

\* The SubLUs a unit holds itself.
OwnSubLUs(u) ==
    CASE u.type = "LexicalUnit" -> Elems(u.analyses)
      [] u.type = "JoinedLexicalUnit" ->
           UNION {Elems(u.slots[k]) : k \in 1..Len(u.slots)}
      [] u.type = "Chunk" -> {u.head}
      [] OTHER -> {}

ReturnedSubLUs == UNION {OwnSubLUs(u) : u \in ReturnedUnitsAndChildren}

\* C1: a fully consumed stream, rendered to its canonical text (reserved
\* characters of the lemma text escaped) and parsed again, gives the same
\* units and an empty remainder.
C1_RoundTrip ==
    pc = "reparsed" =>
        /\ reparse_res.ok
        /\ reparse_res.rest = <<>>
        /\ reparse_res.out = stream_res.out

\* C2: in '^lemma$' a backslash followed by any reserved character is
\* accepted and gives exactly that character in ling_form, the whole unit
\* being consumed.
C2_ReservedEscapesAccepted ==
    pc = "unit" => unit_res = Ok(<<>>, LexicalUnit(given))

\* C3: '^s1+...+sk$' (k >= 2, lemmas of plain characters, zero or more
\* tags each) is a JoinedLexicalUnit of the single slot [s1, ..., sk].
C3_PlusSeparatesComponents ==
    pc = "unit" => unit_res = Ok(<<>>, JoinedLexicalUnit(<<given>>))

\* C4: no returned JoinedLexicalUnit has at most one SubLU in every slot,
\* and parse_stream_unit returns none when the text it consumed has no '+'.
C4_JoinedOnlyWhenNeeded ==
    /\ \A u \in ReturnedUnitsAndChildren :
          u.type = "JoinedLexicalUnit" =>
              \E k \in 1..Len(u.slots) : Len(u.slots[k]) >= 2
    /\ (pc = "unit" /\ unit_res.ok /\ unit_res.out.type = "JoinedLexicalUnit")
          => "+" \in Elems(UnitConsumed)

C4_Witness ==
    /\ pc = "unit"
    /\ unit_res.ok
    /\ unit_res.out.type = "JoinedLexicalUnit"

\* C5: on a text that starts with '^', parse_stream_unit returns only a
\* LexicalUnit or a JoinedLexicalUnit whose text ends with '$'; without a
\* '$' in the text it returns an error.
C5_UnterminatedUnitFails ==
    (pc = "unit" /\ Len(input) >= 1 /\ input[1] = "^") =>
        /\ unit_res.ok =>
              /\ unit_res.out.type \in {"LexicalUnit", "JoinedLexicalUnit"}
              /\ UnitConsumed[Len(UnitConsumed)] = "$"
        /\ "$" \notin Elems(input) => ~unit_res.ok

C5_Witness ==
    /\ pc = "unit"
    /\ Len(input) >= 2
    /\ input[1] = "^"
    /\ "$" \notin Elems(input)
    /\ ~unit_res.ok

\* Whether the body of the unit that starts at character k - 1 of i has,
\* outside its tags and before its '$', a backslash that is the last
\* character or is followed by a character that is not reserved.
RECURSIVE HasInvalidEscape(_, _)
HasInvalidEscape(i, k) ==
    IF k > Len(i) THEN FALSE
    ELSE IF i[k] = "$" THEN FALSE
    ELSE IF i[k] = "\\"
    THEN IF k = Len(i) THEN TRUE
         ELSE IF i[k + 1] \in ReservedSet THEN HasInvalidEscape(i, k + 2)
         ELSE TRUE
    ELSE IF i[k] = "<"
    THEN LET close == {m \in (k + 1)..Len(i) : i[m] = ">"}
         IN  IF close = {} THEN FALSE
             ELSE HasInvalidEscape(
                      i, 1 + CHOOSE m \in close : \A n \in close : m <= n)
    ELSE HasInvalidEscape(i, k + 1)

HasEscapedBackslash(i) ==
    \E k \in 1..(Len(i) - 1) : i[k] = "\\" /\ i[k + 1] = "\\"

\* C6: a '^' unit whose lemma text has a backslash followed by a character
\* that is not reserved, or by nothing, is an error; a ling_form holds a
\* backslash only if the text has an escaped backslash.
C6_InvalidEscapeFails ==
    pc = "unit" =>
        /\ (Len(input) >= 1 /\ input[1] = "^" /\ HasInvalidEscape(input, 2))
              => ~unit_res.ok
        /\ (unit_res.ok /\ ~HasEscapedBackslash(input))
              => \A s \in ReturnedSubLUs : "\\" \notin Elems(s.ling_form)

C6_Witness ==
    /\ pc = "unit"
    /\ Len(input) >= 4
    /\ input[1] = "^"
    /\ input[Len(input)] = "$"
    /\ HasInvalidEscape(input, 2)
    /\ ~unit_res.ok

\* C7: every returned SubLU with an empty ling_form has a flag other than
\* Nothing.
C7_EmptyLingFormHasFlag ==
    \A s \in ReturnedSubLUs : s.ling_form = <<>> => s.flag # "Nothing"

\* Whether out is what parse_stream_unit returns, one unit after the
\* other, from i down to rest.
RECURSIVE Accepted(_, _, _)
AcceptedNext(r, out, rest) ==
    r.ok /\ r.out = Head(out) /\ Accepted(r.rest, Tail(out), rest)

Accepted(i, out, rest) ==
    IF out = <<>> THEN i = rest
    ELSE AcceptedNext(parse_stream_unit(i), out, rest)

\* C8: parse_stream never fails; it returns the units parse_stream_unit
\* accepts one after the other, in order, and a remainder that is empty
\* or at which parse_stream_unit fails.
C8_StreamKeepsAcceptedUnits ==
    pc = "stream" =>
        /\ stream_res.ok
        /\ IsSuffix(stream_res.rest, input)
        /\ Accepted(input, stream_res.out, stream_res.rest)
        /\ stream_res.rest = <<>> \/ ~parse_stream_unit(stream_res.rest).ok

C8_Witness ==
    /\ pc = "stream"
    /\ stream_res.ok
    /\ Len(stream_res.out) >= 1
    /\ stream_res.rest # <<>>
    /\ stream_res.rest[1] = "^"

\* C9: the children of a returned Chunk are LexicalUnit,
\* JoinedLexicalUnit, Format or Space values, never a Chunk.
C9_ChunkChildrenNotChunk ==
    \A u \in ReturnedUnits :
        u.type = "Chunk" =>
            \A c \in Elems(u.children) :
                c.type \in {"LexicalUnit", "JoinedLexicalUnit", "Format", "Space"}

C9_Witness ==
    /\ pc = "unit"
    /\ unit_res.ok
    /\ unit_res.out.type = "Chunk"
    /\ Len(unit_res.out.children) >= 1

\* C10: a successful parse_stream_unit leaves a remainder strictly shorter
\* than its input, and parse_stream returns after at most one unit per
\* character it consumed.
C10_UnitConsumesInput ==
    /\ (pc = "unit" /\ unit_res.ok) =>
          /\ IsSuffix(unit_res.rest, input)
          /\ Len(unit_res.rest) < Len(input)
    /\ pc = "stream" =>
          /\ stream_res.ok
          /\ Len(stream_res.out) <= Len(input) - Len(stream_res.rest)

C10_Witness ==
    /\ pc = "unit"
    /\ unit_res.ok
    /\ unit_res.out.type = "Chunk"
    /\ unit_res.out.head = SubLU(<<>>, "Nothing", <<>>)

====
